---- MODULE Spec2Model ----
(***************************************************************************)
(* Model of classroom_allocation.py: the travel-cost model and the three   *)
(* allocation strategies greedy_allocate, local_search, genetic_allocate.  *)
(*                                                                         *)
(* Representation choices:                                                 *)
(*  - a course's id is its index in the course list, a room's id is its    *)
(*    index in the room list (ids are unique);                             *)
(*  - a Person is represented by its coordinate, a student list by the bag *)
(*    of its coordinates (Points -> number of students there);             *)
(*  - coordinates are taken from a set of points whose pairwise distances  *)
(*    are integers, so math.dist is exact;                                 *)
(*  - every travel cost is held in units of 1/SampleCap, which makes the   *)
(*    factor len(students)/k of travel_cost an exact integer operation;    *)
(*  - the draws of the random sources (random.sample, rng.choice,          *)
(*    rng.random, rng.randrange) are nondeterministic choices, also those  *)
(*    of the seeded generator of genetic_allocate; rng.random() < rate is  *)
(*    a choice between both outcomes (any rate strictly between 0 and 1);  *)
(*  - the allocation given to local_search maps every course to a room of  *)
(*    the room dict.                                                       *)
(***************************************************************************)
EXTENDS Integers, Sequences, FiniteSets, TLC

VARIABLES
    courses,        \* List[Course]
    rooms,          \* List[Room]; rooms[i].schedule is the occupancy table
    call,           \* the function that is called
    pc,             \* position of the running call
    err,            \* the exception raised to the caller (NoErr when none)
    result,         \* the mapping returned to the caller (when pc = "returned")
    order,          \* greedy_allocate: sorted(courses, ...) as course indices
    gi,             \* greedy_allocate: position of the for loop in order
    allocation,     \* greedy_allocate: local dict allocation /
                    \* local_search: the argument allocation
    current,        \* local_search: current
    current_cost,   \* local_search: current_cost
    max_iter,       \* local_search: max_iter
    iter,           \* local_search: iterations of the for loop completed
    pop_size,       \* genetic_allocate: pop_size
    generations,    \* genetic_allocate: generations, less those that have run
    feasible_rooms, \* genetic_allocate: feasible_rooms
    population,     \* genetic_allocate: population
    parents,        \* genetic_allocate: parents
    offspring,      \* genetic_allocate: offspring
    initial_best,   \* exact mode: the least fitness in the population as first
                    \* built (history variable)
    earlier         \* __main__: how the call made before this one on the same
                    \* Room objects ended, and the mapping it had built

vars == <<courses, rooms, call, pc, err, result, order, gi, allocation, current,
          current_cost, max_iter, iter, pop_size, generations, feasible_rooms,
          population, parents, offspring, initial_best, earlier>>

greedyVars == <<order, gi>>
lsVars == <<current, current_cost, max_iter, iter>>
gaVars == <<pop_size, generations, feasible_rooms, population, parents,
            offspring, initial_best>>

\* ------------------------------------------------------------------------
\* Bounds of the model
\* ------------------------------------------------------------------------
MaxCourses == 2
MaxRooms == 2
MaxIter == 2
MaxPop == 3
MaxGen == 2

\* ------------------------------------------------------------------------
\* Input domains
\* ------------------------------------------------------------------------
PA == <<0, 0>>
PB == <<3, 4>>
PC == <<3, 0>>
Points == {PA, PB, PC}
PointSeq == <<PA, PB, PC>>

Sizes == {40, 90}
Capacities == {50, 100}
TimeSlots == {0, 1}

NoStudents == [p \in Points |-> 0]
OneAt(q) == [p \in Points |-> IF p = q THEN 1 ELSE 0]
\* 31 students: one more than the sample cap of travel_cost
BigRoster == [p \in Points |-> IF p = PA THEN 30 ELSE IF p = PB THEN 1 ELSE 0]

\* <<teacher coordinate, students>>
People == { <<PA, OneAt(PA)>>, <<PA, OneAt(PB)>>, <<PB, NoStudents>>,
            <<PA, BigRoster>> }

Min(a, b) == IF a <= b THEN a ELSE b
Max(a, b) == IF a >= b THEN a ELSE b

RoomCoordOf(i) == PointSeq[Min(i, Len(PointSeq))]

Course(i, size, people, timeslot) ==
    [id |-> i, size |-> size, teacher |-> people[1], students |-> people[2],
     timeslot |-> timeslot]

Room(i, capacity, schedule) ==
    [id |-> i, capacity |-> capacity, coord |-> RoomCoordOf(i),
     schedule |-> schedule]

CourseLists ==
    UNION { { [i \in 1..n |-> Course(i, s[i], p[i], t[i])] :
                s \in [1..n -> Sizes], p \in [1..n -> People],
                t \in [1..n -> TimeSlots] } : n \in 0..MaxCourses }

\* an occupancy table at call time: empty, or time-slot 0 held by a course that
\* is not in the course list (id 0)
Schedules == { [t \in occ |-> 0] : occ \in {{}, {0}} }

RoomLists ==
    UNION { { [i \in 1..n |-> Room(i, c[i], s[i])] :
                c \in [1..n -> Capacities], s \in [1..n -> Schedules] } :
            n \in 0..MaxRooms }

\* ------------------------------------------------------------------------
\* Cost model
\* ------------------------------------------------------------------------
SampleCap == 30

Sqrt(n) == CHOOSE r \in 0..n : r * r = n

euclidean(a, b) ==
    Sqrt((a[1] - b[1]) * (a[1] - b[1]) + (a[2] - b[2]) * (a[2] - b[2]))

RECURSIVE BagSize(_, _)
BagSize(students, i) ==
    IF i > Len(PointSeq) THEN 0
    ELSE students[PointSeq[i]] + BagSize(students, i + 1)

\* len(course.students)
NumStudents(course) == BagSize(course.students, 1)

\* The values sum(euclidean(s.coord, coord) for s in sample) can take when
\* sample is k students out of those of students at the points i.. on:
\* j of them are taken at point i, the other k - j at the later points.
RECURSIVE SampleSums(_, _, _, _)
SampleSums(students, coord, i, k) ==
    IF i > Len(PointSeq) THEN {0}
    ELSE LET here == students[PointSeq[i]]
             later == BagSize(students, i + 1)
         IN  UNION { { j * euclidean(PointSeq[i], coord) + x :
                         x \in SampleSums(students, coord, i + 1, k - j) } :
                     j \in Max(0, k - later)..Min(k, here) }

\* travel_cost divides by k = min(30, len(students)): ZeroDivisionError
ZeroDiv(course) == Min(SampleCap, NumStudents(course)) = 0

\* The values travel_cost(course, room) can return, in units of 1/SampleCap.
\* With k < len(students) the sample is random; otherwise it is the roster.
travel_cost(course, room) ==
    LET n == NumStudents(course)
        k == Min(SampleCap, n)
        teacher_cost == euclidean(course.teacher, room.coord)
    IN  { SampleCap * teacher_cost + (s * n * SampleCap) \div k :
            s \in SampleSums(course.students, room.coord, 1, k) }

\* every course has at most 30 students: travel_cost is deterministic
ExactMode == \A i \in 1..Len(courses) : NumStudents(courses[i]) <= SampleCap

\* ------------------------------------------------------------------------
\* Helpers
\* ------------------------------------------------------------------------
NoErr == [type |-> "none", course |-> 0, timeslot |-> 0]

\* no call was made before this one
NoEarlier == [outcome |-> "none", allocation |-> << >>, err |-> NoErr]
Exception(type) == [type |-> type, course |-> 0, timeslot |-> 0]

\* d[k] = v on a dict
DictSet(d, k, v) == [x \in DOMAIN d \cup {k} |-> IF x = k THEN v ELSE d[x]]

\* one draw per element: the functions f over DOMAIN R with f[x] \in R[x]
RECURSIVE Draws(_)
Draws(R) ==
    IF DOMAIN R = {} THEN { << >> }
    ELSE LET x == CHOOSE y \in DOMAIN R : TRUE
             rest == Draws([y \in DOMAIN R \ {x} |-> R[y]])
         IN  { DictSet(f, x, v) : f \in rest, v \in R[x] }

\* Python's stable sort: the indices 1..n in ascending order of key, equal
\* keys in their original order.
RECURSIVE SortedIndices(_, _)
SortedIndices(key, n) ==
    IF n = 0 THEN << >>
    ELSE LET sorted == SortedIndices(key, n - 1)
             pos == Cardinality({ j \in 1..Len(sorted) : key[sorted[j]] <= key[n] })
         IN  SubSeq(sorted, 1, pos) \o <<n>> \o SubSeq(sorted, pos + 1, Len(sorted))

\* min(S, key=...): the first element (lowest index) with the least key
FirstMin(S, key) ==
    CHOOSE x \in S : \A y \in S : key[x] < key[y] \/ (key[x] = key[y] /\ x <= y)

\* ------------------------------------------------------------------------
\* Room.is_available
\* ------------------------------------------------------------------------
is_available_NoSchedule(room, timeslot, size) == room.capacity >= size

is_available(room, timeslot, size) ==
    timeslot \notin DOMAIN room.schedule /\ room.capacity >= size

\* ------------------------------------------------------------------------
\* Properties of a mapping course id -> room id
\* ------------------------------------------------------------------------
\* no two courses sharing a time-slot are assigned the same room
NoDoubleBooking(alloc) ==
    \A c1, c2 \in DOMAIN alloc :
        (c1 # c2 /\ courses[c1].timeslot = courses[c2].timeslot)
            => alloc[c1] # alloc[c2]

\* every course fits the room it is assigned
CapacityFeasible(alloc) ==
    \A c \in DOMAIN alloc : rooms[alloc[c]].capacity >= courses[c].size

\* ------------------------------------------------------------------------
\* 1. greedy_allocate
\* ------------------------------------------------------------------------
SortedCoursesAscending(cs) ==
    SortedIndices([i \in 1..Len(cs) |-> cs[i].size], Len(cs))

\* sorted(courses, key=lambda c: c.size, reverse=True): a stable sort, so
\* courses of equal size keep their input order
SortedCourses(cs) == SortedIndices([i \in 1..Len(cs) |-> 0 - cs[i].size], Len(cs))

feasible_CapacityOnly(course) ==
    { r \in 1..Len(rooms) : rooms[r].capacity >= course.size }

\* feasible = [r for r in rooms if r.is_available(course.timeslot, course.size)]
feasible(course) ==
    { r \in 1..Len(rooms) : is_available(rooms[r], course.timeslot, course.size) }

\* allocation = {}; for course in sorted(...)
GreedyStart ==
    /\ call = "greedy_allocate"
    /\ pc = "start"
    /\ pc' = "greedy"
    /\ allocation' = << >>
    /\ order' = SortedCourses(courses)
    /\ gi' = 1
    /\ UNCHANGED <<courses, rooms, call, err, result, lsVars, gaVars,
                   earlier>>

GreedyRaise_RollsBack ==
    /\ pc = "greedy"
    /\ gi <= Len(order)
    /\ LET course == courses[order[gi]]
       IN  /\ feasible(course) = {}
           /\ err' = [type |-> "RuntimeError", course |-> course.id,
                      timeslot |-> course.timeslot]
    /\ rooms' = [r \in 1..Len(rooms) |->
                   [rooms[r] EXCEPT !.schedule =
                       [t \in { u \in DOMAIN @ : @[u] \notin DOMAIN allocation } |->
                           @[t]]]]
    /\ pc' = "raised"
    /\ UNCHANGED <<courses, call, result, allocation, greedyVars, lsVars, gaVars,
                   earlier>>

\* if not feasible: raise RuntimeError(... course.id ... course.timeslot)
GreedyRaise ==
    /\ pc = "greedy"
    /\ gi <= Len(order)
    /\ LET course == courses[order[gi]]
       IN  /\ feasible(course) = {}
           /\ err' = [type |-> "RuntimeError", course |-> course.id,
                      timeslot |-> course.timeslot]
    /\ pc' = "raised"
    /\ UNCHANGED <<courses, rooms, call, result, allocation, greedyVars, lsVars, gaVars,
                   earlier>>

\* min(feasible, key=travel_cost) evaluates travel_cost, which divides by zero
\* for a course without students
GreedyZeroDiv ==
    /\ pc = "greedy"
    /\ gi <= Len(order)
    /\ LET course == courses[order[gi]]
       IN  /\ feasible(course) # {}
           /\ ZeroDiv(course)
    /\ err' = Exception("ZeroDivisionError")
    /\ pc' = "raised"
    /\ UNCHANGED <<courses, rooms, call, result, allocation, greedyVars, lsVars, gaVars,
                   earlier>>

GreedyCommit_NoMark ==
    /\ pc = "greedy"
    /\ gi <= Len(order)
    /\ LET course == courses[order[gi]]
           F == feasible(course)
           Costs == [r \in F |-> travel_cost(course, rooms[r])]
       IN  /\ F # {}
           /\ ~ZeroDiv(course)
           /\ \E key \in Draws(Costs) :
                allocation' = DictSet(allocation, course.id,
                                      rooms[FirstMin(F, key)].id)
    /\ gi' = gi + 1
    /\ UNCHANGED <<courses, rooms, call, pc, err, result, order, lsVars, gaVars,
                   earlier>>

\* best_room = min(feasible, key=...); best_room.schedule[course.timeslot] =
\* course.id; allocation[course.id] = best_room.id
GreedyCommit ==
    /\ pc = "greedy"
    /\ gi <= Len(order)
    /\ LET course == courses[order[gi]]
           F == feasible(course)
           Costs == [r \in F |-> travel_cost(course, rooms[r])]
       IN  /\ F # {}
           /\ ~ZeroDiv(course)
           /\ \E key \in Draws(Costs) :
                LET best_room == FirstMin(F, key)
                IN  /\ rooms' = [rooms EXCEPT ![best_room].schedule =
                                    DictSet(@, course.timeslot, course.id)]
                    /\ allocation' = DictSet(allocation, course.id, rooms[best_room].id)
    /\ gi' = gi + 1
    /\ UNCHANGED <<courses, call, pc, err, result, order, lsVars, gaVars,
                   earlier>>

\* return allocation
GreedyReturn ==
    /\ pc = "greedy"
    /\ gi > Len(order)
    /\ pc' = "returned"
    /\ result' = allocation
    /\ UNCHANGED <<courses, rooms, call, err, allocation, greedyVars, lsVars, gaVars,
                   earlier>>

\* the variables of the calls that are not running
IdleGreedy == order = << >> /\ gi = 0

IdleLS == current = << >> /\ current_cost = 0 /\ max_iter = 0 /\ iter = 0

IdleGA ==
    /\ pop_size = 0 /\ generations = 0 /\ feasible_rooms = << >>
    /\ population = << >> /\ parents = << >> /\ offspring = << >>
    /\ initial_best = 0

InitGreedy ==
    /\ courses \in CourseLists
    /\ rooms \in RoomLists
    /\ call = "greedy_allocate"
    /\ pc = "start"
    /\ err = NoErr
    /\ result = << >>
    /\ allocation = << >>
    /\ IdleGreedy
    /\ IdleLS
    /\ IdleGA
    /\ earlier = NoEarlier

NextGreedy == GreedyStart \/ GreedyRaise \/ GreedyZeroDiv \/ GreedyCommit \/ GreedyReturn

SpecGreedy == InitGreedy /\ [][NextGreedy]_vars

\* ------------------------------------------------------------------------
\* Claims about greedy_allocate
\* ------------------------------------------------------------------------
GreedyReturned == call = "greedy_allocate" /\ pc = "returned"

GreedyInfeasible ==
    call = "greedy_allocate" /\ pc = "raised" /\ err.type = "RuntimeError"

\* C1: in every mapping returned by greedy_allocate, no two courses that share
\* a time-slot are assigned the same room, whatever the course list and the
\* initial occupancy of the rooms.
C1_GreedyNoDoubleBooking ==
    GreedyReturned =>
        /\ DOMAIN result = 1..Len(courses)
        /\ NoDoubleBooking(result)

\* greedy_allocate returned a mapping that places two courses of one time-slot
C1_Witness ==
    /\ GreedyReturned
    /\ \E c1, c2 \in DOMAIN result :
         c1 # c2 /\ courses[c1].timeslot = courses[c2].timeslot

\* the course the for loop is at has no room that is free at its time-slot and
\* large enough
StuckCourse ==
    /\ gi \in 1..Len(order)
    /\ \A r \in 1..Len(rooms) :
         \/ courses[order[gi]].timeslot \in DOMAIN rooms[r].schedule
         \/ rooms[r].capacity < courses[order[gi]].size

\* C3: greedy_allocate raises its infeasibility error if and only if it reaches
\* a course for which every room is occupied at the course's time-slot or too
\* small; otherwise it returns a mapping.
C3_RaisesIffInfeasible ==
    (call = "greedy_allocate" /\ pc \in {"returned", "raised"}) =>
        IF StuckCourse THEN pc = "raised" /\ err.type = "RuntimeError"
        ELSE pc = "returned"

ScheduleAtTurn(room, j) ==
    { t \in DOMAIN room.schedule :
        \/ room.schedule[t] = 0
        \/ \E i \in 1..(j - 1) : room.schedule[t] = order[i] }

\* the feasible rooms of the course at position j when the loop came to it
FeasibleAtTurn(j) ==
    { r \in 1..Len(rooms) :
        /\ courses[order[j]].timeslot \notin ScheduleAtTurn(rooms[r], j)
        /\ rooms[r].capacity >= courses[order[j]].size }

SingleRoomAtEachTurn ==
    \A j \in 1..Len(order) : Cardinality(FeasibleAtTurn(j)) = 1

\* The room of a course, told from the courses as a set (no reference to
\* their order in the list): the room that fits, was free at the course's
\* time-slot before the call, and is not the room of a larger course of the
\* same time-slot.
RECURSIVE ExpectedRoom(_)
ExpectedRoom(c) ==
    CHOOSE r \in 1..Len(rooms) :
        /\ rooms[r].capacity >= courses[c].size
        /\ \A t \in DOMAIN rooms[r].schedule :
             (t = courses[c].timeslot) => rooms[r].schedule[t] # 0
        /\ \A d \in 1..Len(courses) :
             (courses[d].timeslot = courses[c].timeslot
                /\ courses[d].size > courses[c].size) => ExpectedRoom(d) # r

\* rooms of capacity 50 and 100, free before the call, and two courses of one
\* time-slot, of size 40 and 90
TwoRoomsTwoCourses ==
    /\ Len(rooms) = 2 /\ Len(courses) = 2
    /\ { rooms[r].capacity : r \in 1..2 } = {50, 100}
    /\ \A r \in 1..2 : \A t \in DOMAIN rooms[r].schedule : rooms[r].schedule[t] # 0
    /\ { courses[c].size : c \in 1..2 } = {40, 90}
    /\ courses[1].timeslot = courses[2].timeslot

\* C11: greedy_allocate processes the courses largest first; at a turn where
\* a single room is feasible it commits that room whatever the cost draws are,
\* and when that is so at every turn the returned mapping is the one fixed by
\* the set of courses and the rooms, whatever the order of the course list.
\* With rooms of capacity 50 and 100 and same-slot courses of size 40 and 90
\* the size-90 course gets the 100 room and the size-40 course the 50 room.
C11_GreedySingleChoiceDeterministic ==
    [][call = "greedy_allocate" =>
        /\ (pc = "greedy" /\ gi <= Len(order)) =>
             /\ \A a, b \in 1..Len(order) :
                  a < b => courses[order[a]].size >= courses[order[b]].size
             /\ \A j \in 1..gi : (j = gi) =>
                  /\ feasible(courses[order[j]]) = FeasibleAtTurn(j)
                  /\ FeasibleAtTurn(j)' = FeasibleAtTurn(j)
             /\ \A r \in 1..Len(rooms) :
                  (feasible(courses[order[gi]]) = {r} /\ pc' = "greedy") =>
                      allocation' = DictSet(allocation, order[gi], r)
        /\ (pc' = "returned" /\ SingleRoomAtEachTurn') =>
             \A c \in 1..Len(courses) : result'[c] = ExpectedRoom(c)'
        /\ (pc' = "returned" /\ TwoRoomsTwoCourses') =>
             \A c \in 1..2 :
                 rooms[result'[c]].capacity =
                     IF courses[c].size = 90 THEN 100 ELSE 50]_vars

\* greedy_allocate returned for the rooms of capacity 50 and 100 and the
\* same-slot courses of size 40 and 90, given smallest first, the cost of one
\* of them being sampled
C11_Witness ==
    /\ GreedyReturned
    /\ TwoRoomsTwoCourses
    /\ SingleRoomAtEachTurn
    /\ courses[1].size = 40
    /\ ~ExactMode

\* no time-slot of a room is held by a course from before the call (id 0)
NoEarlierOccupancy ==
    \A r \in 1..Len(rooms) : \A t \in DOMAIN rooms[r].schedule :
        rooms[r].schedule[t] # 0

\* C15: when greedy_allocate runs on rooms whose occupancy tables start empty,
\* then after each committed assignment and at successful return room r's
\* occupancy at time-slot t holds course c exactly when c has time-slot t and
\* the mapping assigns c to r; no other occupancy entry is written.
C15_OccupancyAgreesWithMapping ==
    (call = "greedy_allocate" /\ pc \in {"greedy", "returned"}
        /\ NoEarlierOccupancy) =>
        /\ \A r \in 1..Len(rooms) : \A t \in TimeSlots : \A c \in 1..Len(courses) :
             (t \in DOMAIN rooms[r].schedule /\ rooms[r].schedule[t] = c)
                <=> (/\ c \in DOMAIN allocation
                     /\ courses[c].timeslot = t
                     /\ allocation[c] = r)
        /\ \A r \in 1..Len(rooms) :
             /\ DOMAIN rooms[r].schedule \subseteq TimeSlots
             /\ \A t \in DOMAIN rooms[r].schedule :
                  rooms[r].schedule[t] \in DOMAIN allocation
        /\ pc = "returned" => result = allocation

\* greedy_allocate returned after it placed two courses into rooms that were
\* empty before the call
C15_Witness ==
    /\ GreedyReturned
    /\ NoEarlierOccupancy
    /\ Cardinality(DOMAIN result) = 2
    /\ \E r \in 1..Len(rooms) : DOMAIN rooms[r].schedule # {}

\* ------------------------------------------------------------------------
\* 2. local_search
\* ------------------------------------------------------------------------
RECURSIVE SumOver(_)
SumOver(f) ==
    IF DOMAIN f = {} THEN 0
    ELSE LET x == CHOOSE y \in DOMAIN f : TRUE
         IN  f[x] + SumOver([y \in DOMAIN f \ {x} |-> f[y]])

\* the values cost_of_alloc(alloc) can return: one travel_cost draw per course
cost_of_alloc(alloc) ==
    { SumOver(key) :
        key \in Draws([c \in 1..Len(courses) |->
                          travel_cost(courses[c], rooms[alloc[courses[c].id]])]) }

\* c1.timeslot != c2.timeslot: continue
SameTimeslot(c1, c2) == c1.timeslot = c2.timeslot

CapacityOk_Ignored(r1, r2, c1, c2) == TRUE

\* r1.capacity < c2.size or r2.capacity < c1.size: continue
CapacityOk(r1, r2, c1, c2) == ~(r1.capacity < c2.size \/ r2.capacity < c1.size)

Deltas_NoOldCostOfSecond(c1, c2, r1, r2) ==
    { a + b - c : a \in travel_cost(c1, r2), b \in travel_cost(c2, r1),
                  c \in travel_cost(c1, r1) }

\* the values delta can take: four travel_cost draws
Deltas(c1, c2, r1, r2) ==
    { a + b - c - d : a \in travel_cost(c1, r2), b \in travel_cost(c2, r1),
                      c \in travel_cost(c1, r1), d \in travel_cost(c2, r2) }

Improves_OrEqual(delta) == delta <= 0

\* if delta < 0
Improves(delta) == delta < 0

ArgumentAfterStore_Aliased(argument, stored) == stored

\* current = allocation.copy() is a dict of its own: the dict of the caller
\* is what it was after current[c1.id], current[c2.id] = ... has stored into
\* current
ArgumentAfterStore(argument, stored) == argument

\* random.sample(courses, 2): two distinct positions of the course list
SamplePairs(n) == { p \in (1..n) \X (1..n) : p[1] # p[2] }

\* current = allocation.copy(); current_cost = cost_of_alloc(current)
LSStart ==
    /\ call = "local_search"
    /\ pc = "start"
    /\ \A c \in 1..Len(courses) : ~ZeroDiv(courses[c])
    /\ current' = allocation
    /\ current_cost' \in cost_of_alloc(allocation)
    /\ iter' = 0
    /\ pc' = "ls"
    /\ UNCHANGED <<courses, rooms, call, err, result, allocation, max_iter,
                   greedyVars, gaVars, earlier>>

\* cost_of_alloc evaluates travel_cost for every course: a course without
\* students makes it divide by zero
LSZeroDiv ==
    /\ call = "local_search"
    /\ pc = "start"
    /\ \E c \in 1..Len(courses) : ZeroDiv(courses[c])
    /\ err' = Exception("ZeroDivisionError")
    /\ pc' = "raised"
    /\ UNCHANGED <<courses, rooms, call, result, allocation, lsVars,
                   greedyVars, gaVars, earlier>>

\* random.sample(courses, 2) with fewer than two courses: ValueError
LSSampleError ==
    /\ pc = "ls"
    /\ iter < max_iter
    /\ Len(courses) < 2
    /\ err' = Exception("ValueError")
    /\ pc' = "raised"
    /\ UNCHANGED <<courses, rooms, call, result, allocation, lsVars,
                   greedyVars, gaVars, earlier>>

\* an iteration that ends in one of the two continue statements
LSSkip ==
    /\ pc = "ls"
    /\ iter < max_iter
    /\ \E p \in SamplePairs(Len(courses)) :
         LET c1 == courses[p[1]]
             c2 == courses[p[2]]
             r1 == rooms[current[c1.id]]
             r2 == rooms[current[c2.id]]
         IN  ~SameTimeslot(c1, c2) \/ ~CapacityOk(r1, r2, c1, c2)
    /\ iter' = iter + 1
    /\ UNCHANGED <<courses, rooms, call, pc, err, result, allocation, current,
                   current_cost, max_iter, greedyVars, gaVars, earlier>>

\* an iteration that computes delta and does not apply the swap
LSReject ==
    /\ pc = "ls"
    /\ iter < max_iter
    /\ \E p \in SamplePairs(Len(courses)) :
         LET c1 == courses[p[1]]
             c2 == courses[p[2]]
             r1 == rooms[current[c1.id]]
             r2 == rooms[current[c2.id]]
         IN  /\ SameTimeslot(c1, c2)
             /\ CapacityOk(r1, r2, c1, c2)
             /\ \E delta \in Deltas(c1, c2, r1, r2) : ~Improves(delta)
    /\ iter' = iter + 1
    /\ UNCHANGED <<courses, rooms, call, pc, err, result, allocation, current,
                   current_cost, max_iter, greedyVars, gaVars, earlier>>

\* current[c1.id], current[c2.id] = r2.id, r1.id; current_cost += delta
LSAccept ==
    /\ pc = "ls"
    /\ iter < max_iter
    /\ \E p \in SamplePairs(Len(courses)) :
         LET c1 == courses[p[1]]
             c2 == courses[p[2]]
             r1 == rooms[current[c1.id]]
             r2 == rooms[current[c2.id]]
         IN  /\ SameTimeslot(c1, c2)
             /\ CapacityOk(r1, r2, c1, c2)
             /\ \E delta \in Deltas(c1, c2, r1, r2) :
                  /\ Improves(delta)
                  /\ current' = [current EXCEPT ![c1.id] = r2.id, ![c2.id] = r1.id]
                  /\ current_cost' = current_cost + delta
    /\ allocation' = ArgumentAfterStore(allocation, current')
    /\ iter' = iter + 1
    /\ UNCHANGED <<courses, rooms, call, pc, err, result, max_iter,
                   greedyVars, gaVars, earlier>>

\* return current
LSReturn ==
    /\ pc = "ls"
    /\ iter >= max_iter
    /\ pc' = "returned"
    /\ result' = current
    /\ UNCHANGED <<courses, rooms, call, err, allocation, lsVars, greedyVars, gaVars,
                   earlier>>

\* local_search does not read the occupancy tables: the rooms all get the same
LSRoomLists ==
    UNION { { [i \in 1..n |-> Room(i, c[i], s)] :
                c \in [1..n -> Capacities], s \in Schedules } :
            n \in 0..MaxRooms }

\* the argument allocation maps every course id to the id of a room
InitLS ==
    /\ courses \in CourseLists
    /\ rooms \in LSRoomLists
    /\ allocation \in [1..Len(courses) -> 1..Len(rooms)]
    /\ max_iter \in 0..MaxIter
    /\ call = "local_search"
    /\ pc = "start"
    /\ err = NoErr
    /\ result = << >>
    /\ current = << >> /\ current_cost = 0 /\ iter = 0
    /\ IdleGreedy
    /\ IdleGA
    /\ earlier = NoEarlier

NextLS == LSStart \/ LSZeroDiv \/ LSSampleError \/ LSSkip \/ LSReject \/ LSAccept \/ LSReturn

SpecLS == InitLS /\ [][NextLS]_vars

\* ------------------------------------------------------------------------
\* Claims about local_search
\* ------------------------------------------------------------------------
LSRunning == call = "local_search" /\ pc = "ls"

LSReturned == call = "local_search" /\ pc = "returned"

ExactCost(alloc) == CHOOSE v \in cost_of_alloc(alloc) : TRUE

C8_LocalSearchCompletes ==
    [][LSRunning => /\ pc' # "raised"
                    /\ pc' = "returned" => iter = max_iter]_vars

\* C12: local_search never changes the allocation mapping it was given (the
\* swaps go to a copy, which is what it returns) and never changes the
\* occupancy table of a room, for every input and iteration count.
C12_LocalSearchFrame ==
    [][call = "local_search" =>
          /\ allocation' = allocation
          /\ rooms' = rooms
          /\ pc' = "returned" => result' = current]_vars

\* local_search returned a mapping that differs from the one it was given,
\* for rooms that are occupied at some time-slot
C12_Witness ==
    /\ LSReturned
    /\ result # allocation
    /\ \E r \in 1..Len(rooms) : DOMAIN rooms[r].schedule # {}

RECURSIVE Ascending(_)
Ascending(S) ==
    IF S = {} THEN << >>
    ELSE LET m == CHOOSE x \in S : \A y \in S : x <= y
         IN  <<m>> \o Ascending(S \ {m})

Elements(seq) == { seq[i] : i \in 1..Len(seq) }

FeasibleRooms_NoSchedule(cs, rs) ==
    [c \in 1..Len(cs) |->
        Ascending({ i \in 1..Len(rs) : rs[i].capacity >= cs[c].size })]

FeasibleRooms_NoCapacity(cs, rs) ==
    [c \in 1..Len(cs) |->
        Ascending({ i \in 1..Len(rs) : cs[c].timeslot \notin DOMAIN rs[i].schedule })]

\* feasible_rooms = [[i for i, r in enumerate(rooms) if r.capacity >=
\* course.size and course.timeslot not in r.schedule] for course in courses]
FeasibleRooms(cs, rs) ==
    [c \in 1..Len(cs) |->
        Ascending({ i \in 1..Len(rs) :
                      /\ rs[i].capacity >= cs[c].size
                      /\ cs[c].timeslot \notin DOMAIN rs[i].schedule })]

\* the chromosomes random_chrom() can return
RandomChroms(fr) == Draws([c \in 1..Len(fr) |-> Elements(fr[c])])

\* the values fitness(chrom) can return: one travel_cost draw per gene
fitness(chrom) ==
    { SumOver(key) :
        key \in Draws([i \in 1..Len(chrom) |->
                          travel_cost(courses[i], rooms[chrom[i]])]) }

\* the fitness of chrom in exact mode, where it has one value
ExactFitness(chrom) == CHOOSE v \in fitness(chrom) : TRUE

\* the least fitness in a non-empty population, in exact mode
BestFitness(pop) ==
    CHOOSE v \in { ExactFitness(pop[i]) : i \in 1..Len(pop) } :
        \A i \in 1..Len(pop) : v <= ExactFitness(pop[i])

\* fitness evaluates travel_cost for every course (a chromosome has one gene
\* per course)
FitnessZeroDiv == \E c \in 1..Len(courses) : ZeroDiv(courses[c])

\* min(random.sample(population, 2), key=fitness): the individuals a
\* tournament can return; min keeps the first of the two on equal keys
Winners(pop) ==
    UNION { { IF ka <= kb THEN pop[p[1]] ELSE pop[p[2]] :
                ka \in fitness(pop[p[1]]), kb \in fitness(pop[p[2]]) } :
            p \in SamplePairs(Len(pop)) }

\* p1[:cut] + p2[cut:]
Cross(p1, p2, cut) == SubSeq(p1, 1, cut) \o SubSeq(p2, cut + 1, Len(p2))

\* the pairs <<child1, child2>> a pair of parents can yield: clones, or a
\* crossover at cut = rng.randrange(1, n_courses)
Children(p1, p2) ==
    { <<p1, p2>> } \cup
    { <<Cross(p1, p2, cut), Cross(p2, p1, cut)>> : cut \in 1..(Len(courses) - 1) }

\* what the mutation step can leave of an offspring: itself, or
\* chrom[idx] = rng.choice(feasible_rooms[idx]) at idx = rng.randrange(n_courses)
Mutations(chrom, fr) ==
    { chrom } \cup
    UNION { { [chrom EXCEPT ![idx] = v] : v \in Elements(fr[idx]) } :
            idx \in 1..Len(courses) }

Replace_OffspringOnly(pop, off, key, n) ==
    LET sorted == SortedIndices([i \in 1..Len(off) |-> key[Len(pop) + i]], Len(off))
    IN  [i \in 1..Min(n, Len(off)) |-> off[sorted[i]]]

\* population.extend(offspring); population.sort(key=fitness);
\* population = population[:pop_size], with key[i] the fitness drawn for the
\* i-th individual of the extended population
Replace(pop, off, key, n) ==
    LET merged == pop \o off
        sorted == SortedIndices(key, Len(merged))
    IN  [i \in 1..Min(n, Len(merged)) |-> merged[sorted[i]]]

PopulationAfterMutation_Aliased(pop, before, after) ==
    [k \in 1..Len(pop) |->
        IF \E i \in 1..Len(before) : before[i] = pop[k] /\ after[i] # before[i]
        THEN after[CHOOSE i \in 1..Len(before) :
                       before[i] = pop[k] /\ after[i] # before[i]]
        ELSE pop[k]]

\* every offspring is a list of its own, built by p1[:cut] + p2[cut:] or by
\* p1[:]: the population is what it was after chrom[idx] = ... has stored
\* into the offspring (before: the offspring as they were, after: as they are)
PopulationAfterMutation(pop, before, after) == pop

\* the lists of a call that raised are gone
GARaise(type) ==
    /\ err' = Exception(type)
    /\ pc' = "raised"
    /\ feasible_rooms' = << >>
    /\ population' = << >>
    /\ parents' = << >>
    /\ offspring' = << >>
    /\ UNCHANGED <<courses, rooms, call, result, allocation, pop_size,
                   generations, initial_best, greedyVars, lsVars, earlier>>

\* feasible_rooms = ...; population = [random_chrom() for _ in range(pop_size)]
GAStart ==
    /\ call = "genetic_allocate"
    /\ pc = "start"
    /\ LET fr == FeasibleRooms(courses, rooms)
       IN  /\ pop_size = 0 \/ \A c \in 1..Len(fr) : fr[c] # << >>
           /\ feasible_rooms' = fr
           /\ population' \in [1..pop_size -> RandomChroms(fr)]
    /\ initial_best' = IF ExactMode /\ ~FitnessZeroDiv /\ pop_size >= 1
                       THEN BestFitness(population') ELSE 0
    /\ pc' = "ga_loop"
    /\ UNCHANGED <<courses, rooms, call, err, result, allocation, pop_size,
                   generations, parents, offspring, greedyVars, lsVars,
                   earlier>>

\* random_chrom(): rng.choice(fr) on an empty fr raises IndexError
GAChoiceError ==
    /\ call = "genetic_allocate"
    /\ pc = "start"
    /\ pop_size >= 1
    /\ \E c \in 1..Len(courses) : FeasibleRooms(courses, rooms)[c] = << >>
    /\ GARaise("IndexError")

\* parents = [min(random.sample(population, 2), key=fitness) for _ in
\* range(pop_size)]; offspring = []
GASelect ==
    /\ pc = "ga_loop"
    /\ generations > 0
    /\ pop_size = 0 \/ (Len(population) >= 2 /\ ~FitnessZeroDiv)
    /\ parents' \in [1..pop_size -> Winners(population)]
    /\ offspring' = << >>
    /\ pc' = "ga_reproduce"
    /\ UNCHANGED <<courses, rooms, call, err, result, allocation, pop_size,
                   generations, feasible_rooms, population, initial_best,
                   greedyVars, lsVars, earlier>>

\* random.sample(population, 2) on a population of one: ValueError
GASampleError ==
    /\ pc = "ga_loop"
    /\ generations > 0
    /\ pop_size >= 1
    /\ Len(population) < 2
    /\ GARaise("ValueError")

\* fitness divides by zero for a course without students: in the first
\* tournament, or in min(population, key=fitness) when no generation runs
GAZeroDiv ==
    /\ pc = "ga_loop"
    /\ FitnessZeroDiv
    /\ \/ generations > 0 /\ Len(population) >= 2
       \/ generations <= 0 /\ Len(population) >= 1
    /\ GARaise("ZeroDivisionError")

\* for i in range(0, pop_size, 2): ... offspring.extend([child1, child2]);
\* parents is not read again before the next generation assigns it
GAReproduce ==
    /\ pc = "ga_reproduce"
    /\ pop_size % 2 = 0
    /\ \E ch \in Draws([j \in 1..(pop_size \div 2) |->
                          Children(parents[2 * j - 1], parents[2 * j])]) :
         offspring' = [i \in 1..pop_size |-> ch[(i + 1) \div 2][2 - (i % 2)]]
    /\ parents' = << >>
    /\ pc' = "ga_mutate"
    /\ UNCHANGED <<courses, rooms, call, err, result, allocation, pop_size,
                   generations, feasible_rooms, population, initial_best,
                   greedyVars, lsVars, earlier>>

\* rng.randrange(1, n_courses) with n_courses <= 1: ValueError
GACrossoverError ==
    /\ pc = "ga_reproduce"
    /\ pop_size >= 2
    /\ Len(courses) <= 1
    /\ GARaise("ValueError")

\* parents[i + 1] at the last i of an odd pop_size: IndexError
GAIndexError ==
    /\ pc = "ga_reproduce"
    /\ pop_size % 2 = 1
    /\ GARaise("IndexError")

\* for chrom in offspring: if rng.random() < mutation_rate: ...
GAMutate ==
    /\ pc = "ga_mutate"
    /\ offspring' \in Draws([i \in 1..Len(offspring) |->
                               Mutations(offspring[i], feasible_rooms)])
    /\ population' = PopulationAfterMutation(population, offspring, offspring')
    /\ pc' = "ga_replace"
    /\ UNCHANGED <<courses, rooms, call, err, result, allocation, pop_size,
                   generations, feasible_rooms, parents, initial_best,
                   greedyVars, lsVars, earlier>>

\* rng.randrange(n_courses) with n_courses = 0: ValueError
GAMutationError ==
    /\ pc = "ga_mutate"
    /\ Len(offspring) >= 1
    /\ Len(courses) = 0
    /\ GARaise("ValueError")

\* population.extend(offspring); population.sort(key=fitness);
\* population = population[:pop_size]; offspring is not read again before the
\* next generation assigns it
GAReplace ==
    /\ pc = "ga_replace"
    /\ \E key \in Draws([i \in 1..(Len(population) + Len(offspring)) |->
                           fitness((population \o offspring)[i])]) :
         population' = Replace(population, offspring, key, pop_size)
    /\ offspring' = << >>
    /\ generations' = generations - 1
    /\ pc' = "ga_loop"
    /\ UNCHANGED <<courses, rooms, call, err, result, allocation, pop_size,
                   feasible_rooms, parents, initial_best, greedyVars, lsVars,
                   earlier>>

\* min(population, key=fitness) on an empty population: ValueError
GAMinError ==
    /\ pc = "ga_loop"
    /\ generations <= 0
    /\ Len(population) = 0
    /\ GARaise("ValueError")

\* best = min(population, key=fitness);
\* return {course.id: rooms[idx].id for course, idx in zip(courses, best)}
GAReturn ==
    /\ pc = "ga_loop"
    /\ generations <= 0
    /\ Len(population) >= 1
    /\ ~FitnessZeroDiv
    /\ \E key \in Draws([i \in 1..Len(population) |-> fitness(population[i])]) :
         LET best == population[FirstMin(1..Len(population), key)]
         IN  result' = [c \in { courses[i].id : i \in 1..Len(courses) } |->
                           rooms[best[c]].id]
    /\ pc' = "returned"
    /\ UNCHANGED <<courses, rooms, call, err, allocation, gaVars, greedyVars, lsVars,
                   earlier>>

\* the course lists given to genetic_allocate: the rosters are one that
\* travel_cost sums exactly, one that it samples, and an empty one
GACourseLists ==
    { cs \in CourseLists :
        \A i \in 1..Len(cs) : cs[i].students # OneAt(PB) }

InitGA ==
    /\ courses \in GACourseLists
    /\ rooms \in RoomLists
    /\ pop_size \in 0..MaxPop
    /\ generations \in 0..MaxGen
    /\ call = "genetic_allocate"
    /\ pc = "start"
    /\ err = NoErr
    /\ result = << >>
    /\ allocation = << >>
    /\ feasible_rooms = << >> /\ population = << >> /\ parents = << >>
    /\ offspring = << >> /\ initial_best = 0
    /\ IdleGreedy
    /\ IdleLS
    /\ earlier = NoEarlier

NextGA ==
    \/ GAStart \/ GAChoiceError \/ GASelect \/ GASampleError \/ GAZeroDiv
    \/ GAReproduce \/ GACrossoverError \/ GAIndexError \/ GAMutate
    \/ GAMutationError \/ GAReplace \/ GAMinError \/ GAReturn

SpecGA == InitGA /\ [][NextGA]_vars

\* ------------------------------------------------------------------------
\* Claims about genetic_allocate
\* ------------------------------------------------------------------------
GAReturned == call = "genetic_allocate" /\ pc = "returned"

\* some course has no room that is large enough and free at its time-slot
SomeCourseWithoutRoom ==
    \E c \in 1..Len(courses) :
        \A r \in 1..Len(rooms) :
            \/ rooms[r].capacity < courses[c].size
            \/ courses[c].timeslot \in DOMAIN rooms[r].schedule

\* C4: whenever some course's feasible-room list is empty, genetic_allocate
\* fails with an explicit precondition failure before the evolutionary loop,
\* for every population size and generation count: it never reaches the loop,
\* never returns a mapping, and never fails with another error.
C4_EmptyFeasibleListIsPreconditionFailure ==
    (call = "genetic_allocate" /\ SomeCourseWithoutRoom) =>
        /\ pc \in {"start", "raised"}
        /\ pc = "raised" => err.type = "PreconditionError"

\* C7: in exact mode, whatever the number of generations, the least fitness
\* in the population after the last generation (and after every generation)
\* is at most the least fitness in the initial population.
C7_BestFitnessNeverWorse ==
    (call = "genetic_allocate" /\ pc \in {"ga_loop", "returned"}
        /\ ExactMode /\ ~FitnessZeroDiv /\ Len(population) >= 1) =>
        BestFitness(population) <= initial_best

\* in exact mode genetic_allocate returned from a population whose best
\* individual is strictly better than the best initial one
C7_Witness ==
    /\ GAReturned
    /\ ExactMode
    /\ ~FitnessZeroDiv
    /\ BestFitness(population) < initial_best

\* C10: a mapping returned by genetic_allocate gives every course a room that
\* is large enough and was free at the course's time-slot when the call
\* started; it need not keep two courses of one time-slot apart (the witness).
C10_GeneticPerCourseFeasibilityOnly ==
    GAReturned =>
        /\ DOMAIN result = 1..Len(courses)
        /\ \A c \in DOMAIN result :
             /\ result[c] \in 1..Len(rooms)
             /\ rooms[result[c]].capacity >= courses[c].size
             /\ courses[c].timeslot \notin DOMAIN rooms[result[c]].schedule

\* genetic_allocate returned a mapping that puts two courses of one time-slot
\* into the same room, which was free and fits both
C10_Witness ==
    /\ GAReturned
    /\ \E c1, c2 \in DOMAIN result :
         /\ c1 # c2
         /\ courses[c1].timeslot = courses[c2].timeslot
         /\ result[c1] = result[c2]

\* a generation of genetic_allocate is running or about to run, on at least two
\* courses that all have students
InGeneration ==
    /\ call = "genetic_allocate"
    /\ pc \in {"ga_loop", "ga_reproduce", "ga_mutate", "ga_replace"}
    /\ pc = "ga_loop" => generations > 0
    /\ Len(courses) >= 2
    /\ ~FitnessZeroDiv

\* C13: in every generation of genetic_allocate, for every pop_size >= 1, even
\* or odd, selection produces pop_size parents, reproduction produces as many
\* offspring as there are parents, and after replacement the population has
\* pop_size individuals again.
C13_GenerationKeepsPopulationSize ==
    [][(InGeneration /\ pop_size >= 1) =>
          /\ pc = "ga_loop" =>
                /\ pc' = "ga_reproduce"
                /\ Len(parents') = pop_size
          /\ pc = "ga_reproduce" =>
                /\ pc' = "ga_mutate"
                /\ Len(offspring') = Len(parents)
          /\ pc = "ga_mutate" =>
                /\ pc' = "ga_replace"
                /\ Len(offspring') = pop_size
          /\ pc = "ga_replace" =>
                /\ pc' = "ga_loop"
                /\ Len(population') = pop_size]_vars

\* C14: for every course count >= 1, each reproduction step of
\* genetic_allocate yields two children of length n_courses: with crossover
\* they are p1[:k]+p2[k:] and p2[:k]+p1[k:] for a cut 1 <= k <= n_courses - 1,
\* without crossover they equal the parents; the gene at position i of a child
\* is the gene at position i of one of its parents.
C14_ReproductionYieldsChildren ==
    [][(call = "genetic_allocate" /\ pc = "ga_reproduce"
          /\ Len(courses) >= 1 /\ pop_size % 2 = 0) =>
          /\ pc' = "ga_mutate"
          /\ Len(offspring') = pop_size
          /\ \A j \in 1..(pop_size \div 2) :
                LET n == Len(courses)
                    p1 == parents[2 * j - 1]
                    p2 == parents[2 * j]
                    child1 == offspring'[2 * j - 1]
                    child2 == offspring'[2 * j]
                IN  /\ Len(child1) = n /\ Len(child2) = n
                    /\ \/ child1 = p1 /\ child2 = p2
                       \/ \E k \in 1..(n - 1) :
                            /\ child1 = SubSeq(p1, 1, k) \o SubSeq(p2, k + 1, n)
                            /\ child2 = SubSeq(p2, 1, k) \o SubSeq(p1, k + 1, n)
                    /\ \A i \in 1..n : /\ child1[i] \in {p1[i], p2[i]}
                                        /\ child2[i] \in {p1[i], p2[i]}]_vars

\* C19: within a generation of genetic_allocate, crossover and mutation never
\* change a chromosome of the current population: every offspring is a list of
\* its own, also when one individual was selected for both or for several
\* parent slots, so the mutation of an offspring changes one gene of that
\* offspring and nothing else.
C19_OffspringAreFreshLists ==
    [][(call = "genetic_allocate" /\ pc \in {"ga_reproduce", "ga_mutate"}) =>
          /\ population' = population \/ pc' = "raised"
          /\ (pc = "ga_mutate" /\ pc' = "ga_replace") =>
                /\ Len(offspring') = Len(offspring)
                /\ \A i \in 1..Len(offspring) :
                      /\ Len(offspring'[i]) = Len(offspring[i])
                      /\ Cardinality({ g \in 1..Len(offspring[i]) :
                                         offspring'[i][g] # offspring[i][g] }) <= 1]_vars

\* the individuals of the population are all the same chromosome, so every
\* pair of parents was one chromosome twice, and an offspring was mutated: it
\* differs from it while the population is as it was
C19_Witness ==
    /\ call = "genetic_allocate"
    /\ pc = "ga_replace"
    /\ Len(courses) = 2
    /\ Len(population) >= 2
    /\ \A i, j \in 1..Len(population) : population[i] = population[j]
    /\ \E i \in 1..Len(offspring) : offspring[i] # population[1]

\* ------------------------------------------------------------------------
\* The three strategies together: one call of any of them
\* ------------------------------------------------------------------------
Init == InitGreedy \/ InitLS \/ InitGA

Next == NextGreedy \/ NextLS \/ NextGA

Spec == Init /\ [][Next]_vars

\* C2: every course fits the room it is assigned in every mapping returned by
\* greedy_allocate and by genetic_allocate, and in every mapping returned by
\* local_search when the allocation it started from had this property.
C2_CapacityRespected ==
    /\ GreedyReturned => CapacityFeasible(result)
    /\ GAReturned => CapacityFeasible(result)
    /\ (LSReturned /\ CapacityFeasible(allocation)) => CapacityFeasible(result)

\* local_search returned after it applied a swap to an allocation in which
\* every course fits its room, and the courses are not all of one size
C2_Witness ==
    /\ LSReturned
    /\ CapacityFeasible(allocation)
    /\ result # allocation
    /\ \E c1, c2 \in DOMAIN result : courses[c1].size < courses[c2].size

\* ------------------------------------------------------------------------
\* __main__: a second call on the Room objects and the courses of a
\* greedy_allocate call that has ended
\* ------------------------------------------------------------------------
\* what the caller keeps of the call that has ended
Ended == [outcome |-> pc, allocation |-> allocation, err |-> err]

CallGenetic_FreshRooms ==
    /\ call = "greedy_allocate"
    /\ pc \in {"returned", "raised"}
    /\ earlier = NoEarlier
    /\ earlier' = Ended
    /\ rooms' = [r \in 1..Len(rooms) |-> [rooms[r] EXCEPT !.schedule = << >>]]
    /\ call' = "genetic_allocate"
    /\ pc' = "start"
    /\ err' = NoErr
    /\ result' = << >>
    /\ allocation' = << >>
    /\ order' = << >> /\ gi' = 0
    /\ pop_size' \in 0..MaxPop
    /\ generations' \in 0..MaxGen
    /\ UNCHANGED <<courses, lsVars, feasible_rooms, population, parents,
                   offspring, initial_best>>

\* genetic_alloc = genetic_allocate(courses, rooms) after greedy_allocate(courses,
\* rooms): the same list of Room objects, with the occupancy the greedy call
\* left in them
CallGenetic ==
    /\ call = "greedy_allocate"
    /\ pc \in {"returned", "raised"}
    /\ earlier = NoEarlier
    /\ earlier' = Ended
    /\ call' = "genetic_allocate"
    /\ pc' = "start"
    /\ err' = NoErr
    /\ result' = << >>
    /\ allocation' = << >>
    /\ order' = << >> /\ gi' = 0
    /\ pop_size' \in 0..MaxPop
    /\ generations' \in 0..MaxGen
    /\ UNCHANGED <<courses, rooms, lsVars, feasible_rooms, population, parents,
                   offspring, initial_best>>

\* greedy_allocate(courses, rooms) once more, on the same Room objects
CallGreedyAgain ==
    /\ call = "greedy_allocate"
    /\ pc \in {"returned", "raised"}
    /\ earlier = NoEarlier
    /\ earlier' = Ended
    /\ pc' = "start"
    /\ err' = NoErr
    /\ result' = << >>
    /\ allocation' = << >>
    /\ order' = << >> /\ gi' = 0
    /\ UNCHANGED <<courses, rooms, call, lsVars, gaVars>>

InitMain == InitGreedy

NextMain == NextGreedy \/ CallGenetic \/ CallGreedyAgain \/ NextGA

SpecMain == InitMain /\ [][NextMain]_vars

\* ------------------------------------------------------------------------
\* Claims about calls in sequence
\* ------------------------------------------------------------------------
\* genetic_allocate was called after greedy_allocate returned a mapping
GeneticAfterGreedy ==
    call = "genetic_allocate" /\ earlier.outcome = "returned"

\* every room that is large enough for some course is occupied at the
\* course's time-slot
SomeTimeslotFilled ==
    \E c \in 1..Len(courses) :
        \A r \in 1..Len(rooms) :
            rooms[r].capacity >= courses[c].size
                => courses[c].timeslot \in DOMAIN rooms[r].schedule

\* C16: genetic_allocate reads the occupancy as it is at call time: called
\* after greedy_allocate succeeded on the same Room objects, every mapping it
\* returns gives each course a room that is unoccupied at the course's
\* time-slot in the occupancy tables, so no course gets the room
\* greedy_allocate gave it; and if every capacity-feasible room of some
\* course's time-slot is filled, it returns no mapping at all.
C16_GeneticAfterGreedy ==
    GeneticAfterGreedy =>
        /\ \A c \in DOMAIN earlier.allocation :
             /\ courses[c].timeslot \in DOMAIN rooms[earlier.allocation[c]].schedule
             /\ rooms[earlier.allocation[c]].schedule[courses[c].timeslot] = c
        /\ pc = "returned" =>
             /\ DOMAIN result = DOMAIN earlier.allocation
             /\ \A c \in DOMAIN result :
                  /\ courses[c].timeslot \notin DOMAIN rooms[result[c]].schedule
                  /\ result[c] # earlier.allocation[c]
        /\ SomeTimeslotFilled => pc # "returned"

\* genetic_allocate returned a mapping for two courses after greedy_allocate
\* had placed them
C16_Witness ==
    /\ GeneticAfterGreedy
    /\ pc = "returned"
    /\ Cardinality(DOMAIN result) = 2

\* greedy_allocate was called again after it had raised its infeasibility
\* error
GreedyAfterFailure ==
    /\ call = "greedy_allocate"
    /\ earlier.outcome = "raised"
    /\ earlier.err.type = "RuntimeError"

\* C17: when greedy_allocate fails at some course, the occupancy entries it
\* wrote for the courses placed before are not rolled back: they are in the
\* occupancy tables after the failure, and a second greedy_allocate call on
\* the same rooms finds those rooms occupied at those time-slots.
C17_FailedGreedyLeavesOccupancy ==
    /\ GreedyInfeasible =>
         \A c \in DOMAIN allocation :
             /\ courses[c].timeslot \in DOMAIN rooms[allocation[c]].schedule
             /\ rooms[allocation[c]].schedule[courses[c].timeslot] = c
    /\ GreedyAfterFailure =>
         \A c \in DOMAIN earlier.allocation :
             LET r == earlier.allocation[c]
                 t == courses[c].timeslot
             IN  /\ t \in DOMAIN rooms[r].schedule
                 /\ rooms[r].schedule[t] = c
                 /\ ~is_available(rooms[r], t, 0)
                 /\ (pc = "greedy" /\ gi <= Len(order)
                        /\ courses[order[gi]].timeslot = t)
                       => r \notin feasible(courses[order[gi]])
                 /\ \A d \in DOMAIN allocation :
                       courses[d].timeslot = t => allocation[d] # r

\* the second call fails at a course that the first, failed call had placed:
\* the room it was given then is still held
C17_Witness ==
    /\ GreedyAfterFailure
    /\ pc = "raised"
    /\ err.type = "RuntimeError"
    /\ err.course \in DOMAIN earlier.allocation

====
